---- MODULE Spec2Model ----
(***************************************************************************)
(* Model of miflora-mqtt-daemon.py: the start-up sequence of the main      *)
(* thread (configuration check, broker connect, sensor registration,       *)
(* discovery, worker start, join) and the two sensorPooler threads, each   *)
(* looping over "with hciLock: pool_sensors(...)".                         *)
(*                                                                         *)
(* The sensor reader (MiFloraPoller / MiThermometerPoller) and the broker  *)
(* client (paho) are external: every call into them is a nondeterministic  *)
(* choice over the outcomes the calling code distinguishes.                *)
(***************************************************************************)
EXTENDS Integers, Sequences, FiniteSets, TLC

\* ---------------------------------------------------------------- bounds
\* configured sensor entries, both sections together
MaxSensors == 2
\* polling passes, of both workers together, after which no worker is
\* followed into a further cycle
MaxCycles == 2
\* fill_cache calls of one acquisition whose outcomes are recorded; a later
\* call that leaves the cache empty changes nothing but the parity of the
\* iteration count
MaxFills == 3

\* ------------------------------------------------------------- constants
sensor_type_miflora == "MiFlora"
sensor_type_mitempbt == "MiTempBt"
SensorTypes == {sensor_type_miflora, sensor_type_mitempbt}

\* the list of line 339
ReportingModes ==
    {"mqtt-json", "mqtt-homie", "json", "mqtt-smarthome",
     "homeassistant-mqtt", "thingsboard-json", "wirenboard-mqtt"}

\* a list that names every mode
MqttModes_every_mode == ReportingModes

\* the list of line 352: the modes that create and connect mqtt_client
MqttModes == ReportingModes \ {"json"}

\* what config['General'].get('reporting_method') can hold: any string
ConfiguredModes == ReportingModes \cup {"mqtt-typo"}

\* Names are sequences of one-character strings.  A section lists some of
\* these option names, in this order, the first of them always.
NamePool ==
    << <<"a", " ", "b">>, <<"a", "-", "b">>, <<"c", "@", "k">> >>

\* A hardware address: its first three octets, whether three upper-case hex
\* octets follow them, and the characters after the sixth octet.  The
\* registry keeps no address: nothing modelled here reads sensor['mac'].
MacPool ==
    { [oui |-> "C4:7C:8D", hex |-> TRUE,  tail |-> ""],
      [oui |-> "C4:7C:8D", hex |-> TRUE,  tail |-> ":DD"],
      [oui |-> "C4:7C:8D", hex |-> FALSE, tail |-> ""],
      [oui |-> "4C:65:A8", hex |-> TRUE,  tail |-> ""] }

\* the strictly increasing index sequences of length n into NamePool that
\* start at its first name
Picks(n) ==
    { p \in [1..n -> 1..Len(NamePool)] :
        /\ \A i \in 1..n : \A j \in 1..n : i < j => p[i] < p[j]
        /\ n > 0 => p[1] = 1 }

\* the sections of n entries: ConfigParser admits an option name only once
Sections(n) ==
    { [i \in 1..n |-> [name |-> NamePool[p[i]], mac |-> m[i]]] :
        p \in Picks(n), m \in [1..n -> MacPool] }

\* --------------------------------------------------------------- helpers
RECURSIVE replace_from(_, _, _, _)
\* str.replace(this, that) for a one-character `this`, from position i on
replace_from(s, i, this, that) ==
    IF i > Len(s) THEN <<>>
    ELSE (IF s[i] = this THEN that ELSE <<s[i]>>)
         \o replace_from(s, i + 1, this, that)

\* str.replace(this, that): the string the method is called on is bound
\* once, a chain of calls computes each intermediate string once
replace(s, this, that) ==
    CHOOSE r \in {replace_from(str, 1, this, that) : str \in {s}} : TRUE

RECURSIVE lstrip(_)
lstrip(s) ==
    IF s # <<>> /\ Head(s) = " " THEN lstrip(Tail(s)) ELSE s

RECURSIVE rstrip(_)
rstrip(s) ==
    IF s # <<>> /\ s[Len(s)] = " " THEN rstrip(SubSeq(s, 1, Len(s) - 1)) ELSE s

\* name.strip(), then the replacements of line 90 in order; unidecode leaves
\* the ASCII result unchanged
clean_identifier(name) ==
    LET c0 == rstrip(lstrip(name))
        c1 == replace(c0, " ", <<"-">>)
        c2 == replace(c1, "ä", <<"a", "e">>)
        c3 == replace(c2, "Ä", <<"A", "e">>)
        c4 == replace(c3, "ö", <<"o", "e">>)
        c5 == replace(c4, "Ö", <<"O", "e">>)
        c6 == replace(c5, "ü", <<"u", "e">>)
        c7 == replace(c6, "Ü", <<"U", "e">>)
    IN  replace(c7, "ß", <<"s", "s">>)

RECURSIVE before_at(_)
\* the first element of name.split('@')
before_at(s) ==
    IF s = <<>> \/ Head(s) = "@" THEN <<>> ELSE <<Head(s)>> \o before_at(Tail(s))

\* lines 159-163: the display name is the part before '@'
name_pretty_of(name) ==
    IF \E i \in 1..Len(name) : name[i] = "@" THEN before_at(name) ELSE name

\* lines 146 and 149: the three leading octets each class's pattern admits
mac_regexp(sensor_type) ==
    IF sensor_type = sensor_type_miflora
    THEN {"C4:7C:8D"}
    ELSE {"4C:65:A8", "58:2D:34"}

\* re.match(mac_regexp, mac): anchored at the start of the string only, so the
\* characters after the sixth octet are not examined
re_match(sensor_type, mac) ==
    mac.oui \in mac_regexp(sensor_type) /\ mac.hex

\* sensors[name_clean] = sensor on an OrderedDict: a new key is appended, an
\* existing key keeps its position and gets the new value
dict_set(sensors, sensor) ==
    IF \E i \in 1..Len(sensors) : sensors[i].name = sensor.name
    THEN [i \in 1..Len(sensors) |->
            IF sensors[i].name = sensor.name THEN sensor ELSE sensors[i]]
    ELSE Append(sensors, sensor)

\* lines 70-81: what a call leaves behind, a line on the console (on stderr
\* when error is set) and, when sd_notify is set, a STATUS notification to
\* systemd
print_line(text, error, sd_notify, console) ==
    [text |-> text, console |-> console, error |-> error,
     sd_notify |-> sd_notify]

\* an exception nobody catches: the interpreter writes the traceback to stderr
\* and notifies nobody
traceback(exception) ==
    [text |-> exception, console |-> TRUE, error |-> TRUE, sd_notify |-> FALSE]

\* ----------------------------------------------------------------- state
VARIABLES
    reporting_mode,   \* config['General']['reporting_method']
    daemon_enabled,   \* config['Daemon']['enabled']
    config,           \* per section, the entries init_sensors has not yet read
    configured,       \* per section, the number of entries config.ini lists
    mainPc,           \* position of the main thread
    exitStatus,       \* "running", "zero" or "nonzero"
    exitLine,         \* what the process said last on a fatal exit: the
                      \*   print_line call, or the traceback, before it
    mqtt_connected,   \* mqtt_client.connect() has returned
    announced,        \* the messages the Discovery Announcement has published
    sensors,          \* mifloras / mitempbts: per class, the ordered registry
    hciLock,          \* "free" or the sensor type of the worker holding it
    pc,               \* per worker: position in run() / pool_sensors()
    idx,              \* per worker: position of the for loop of line 201
    attempts,         \* per worker: the local of line 203
    cache,            \* per worker: whether sensor['poller']._cache of the
                      \*   sensor the for loop is at holds data
    passes,           \* per worker: pool_sensors calls started
    outcomes,         \* per worker: outcomes of the fill_cache attempts of
                      \*   the acquisition in progress
    acq,              \* per worker and position: how the acquisition ended
                      \*   in the current pass ("none" before it has)
    acqStarted,       \* per worker and position: acquisitions begun in the
                      \*   current pass
    dispatched,       \* per worker: positions for which a publish or a data
                      \*   print was issued in the current pass
    crashedAt,        \* per worker: the step whose exception ended run()
    data,             \* per worker: the dict of line 202, a list of
                      \*   [name, value] in insertion order
    published,        \* per worker: the messages handed to mqtt_client for
                      \*   the sensor the for loop is at
    username,         \* the user name mqtt_client connects with
    visited,          \* per worker: the sensor names the for loop of line
                      \*   201 has yielded in the current pass, in order
    lastVisited,      \* per worker: the same for its last completed pass
    brokerCalls,      \* the methods of mqtt_client called so far, of
                      \*   connect, publish, reconnect and disconnect
    unrecorded        \* per worker: parity of the iterations of the while
                      \*   loop of line 208 that outcomes does not record

cfgVars == <<reporting_mode, daemon_enabled, configured>>
mainVars == <<config, mainPc, exitStatus, exitLine, mqtt_connected,
             announced>>
workerVars == <<hciLock, pc, idx, attempts, cache, passes, outcomes, acq, acqStarted,
                dispatched, crashedAt, data, published>>
vars == <<reporting_mode, daemon_enabled, config, configured, mainPc, exitStatus,
          exitLine, mqtt_connected, announced, sensors, hciLock, pc, idx, attempts, cache, passes,
          outcomes, acq, acqStarted, dispatched, crashedAt, data, published,
          username, visited, lastVisited, brokerCalls, unrecorded>>
orderVars == <<visited, lastVisited>>

Init ==
    /\ reporting_mode \in ConfiguredModes
    /\ daemon_enabled \in BOOLEAN
    /\ \E n \in 0..MaxSensors : \E m \in 0..(MaxSensors - n) :
         \E flora \in Sections(n) : \E temp \in Sections(m) :
            config = [t \in SensorTypes |->
                        IF t = sensor_type_miflora THEN flora ELSE temp]
    /\ configured = [t \in SensorTypes |-> Len(config[t])]
    /\ mainPc = "check"
    /\ exitStatus = "running"
    /\ exitLine = print_line("", FALSE, FALSE, FALSE)
    /\ mqtt_connected = FALSE
    /\ announced = <<>>
    /\ sensors = [t \in SensorTypes |-> <<>>]
    /\ hciLock = "free"
    /\ pc = [t \in SensorTypes |-> "idle"]
    /\ idx = [t \in SensorTypes |-> 0]
    /\ attempts = [t \in SensorTypes |-> 0]
    /\ cache = [t \in SensorTypes |-> FALSE]
    /\ passes = [t \in SensorTypes |-> 0]
    /\ outcomes = [t \in SensorTypes |-> <<>>]
    /\ unrecorded = [t \in SensorTypes |-> FALSE]
    /\ acq = [t \in SensorTypes |-> <<>>]
    /\ acqStarted = [t \in SensorTypes |-> <<>>]
    /\ dispatched = [t \in SensorTypes |-> {}]
    /\ crashedAt = [t \in SensorTypes |-> "none"]
    /\ data = [t \in SensorTypes |-> <<>>]
    /\ published = [t \in SensorTypes |-> <<>>]
    /\ username = <<>>
    /\ visited = [t \in SensorTypes |-> <<>>]
    /\ lastVisited = [t \in SensorTypes |-> <<>>]
    /\ brokerCalls = {}

\* ------------------------------------------------------- broker messages
\* Strings that are built at run time (topics, payloads) are sequences of
\* tokens; str.format is concatenation.

\* lines 35-41 and 43-47: the keys of the parameter tables, in their order
\* (the values of MI_LIGHT, MI_TEMPERATURE, ... in the reader libraries)
miflora_parameters ==
    <<"light", "temperature", "moisture", "conductivity", "battery">>

mitempbt_parameters == <<"temperature", "humidity", "battery">>

\* lines 539-543: the table each worker is created with
parameters_of(sensor_type) ==
    IF sensor_type = sensor_type_miflora
    THEN miflora_parameters ELSE mitempbt_parameters

\* lines 319-330; no base_topic is configured
default_base_topic(mode) ==
    CASE mode = "mqtt-homie" -> <<"homie">>
      [] mode = "homeassistant-mqtt" -> <<"homeassistant">>
      [] mode = "thingsboard-json" -> <<"v1/devices/me/telemetry">>
      [] mode = "wirenboard-mqtt" -> <<>>
      [] OTHER -> <<"misensor">>

\* line 331
base_topic == default_base_topic(reporting_mode)

\* line 332; no homie_device_id is configured
device_id == <<"miflora-mqtt-daemon">>

\* str.lower() on the letters a name can hold here
lower_char(c) ==
    CASE c = "A" -> "a" [] c = "B" -> "b" [] c = "C" -> "c" [] c = "K" -> "k"
      [] OTHER -> c

lower(s) == [i \in 1..Len(s) |-> lower_char(s[i])]

\* str.title() on a parameter key: the first letter in upper case
title(param) ==
    CASE param = "light" -> "Light"
      [] param = "temperature" -> "Temperature"
      [] param = "moisture" -> "Moisture"
      [] param = "conductivity" -> "Conductivity"
      [] param = "battery" -> "Battery"
      [] param = "humidity" -> "Humidity"

\* mqtt_client.publish(topic, payload=None, qos=0, retain=False): the message
\* handed to the client
publish(topic, payload, qos, retain) ==
    [topic |-> topic, payload |-> payload, qos |-> qos, retain |-> retain]

RECURSIVE json_items(_, _)
\* the "key: value" pairs of json.dumps, in the order of the keys; value(key)
\* is the serialised value
json_items(keys, value) ==
    IF keys = <<>> THEN <<>>
    ELSE <<Head(keys), ":">> \o value[Head(keys)]
         \o (IF Tail(keys) = <<>> THEN <<>> ELSE <<",">>)
         \o json_items(Tail(keys), value)

\* json.dumps of a dict with these keys
json_dumps(keys, value) == <<"{">> \o json_items(keys, value) \o <<"}">>

RECURSIVE concat(_)
\* the concatenation of a sequence of sequences
concat(ss) == IF ss = <<>> THEN <<>> ELSE Head(ss) \o concat(Tail(ss))

\* a / b
slash(a, b) == a \o <<"/">> \o b

\* chain(mifloras.items(), mitempbts.items())
chain(mifloras, mitempbts) == mifloras \o mitempbts

\* the keys of a registry entry that the model keeps, in the order lines
\* 175-186 set them; 'firmware' only when line 186 has run
sensor_items(sensor) ==
    <<"name_pretty", "stats">>
    \o (IF sensor.firmware THEN <<"firmware">> ELSE <<>>)

\* an announcement that copies every key of the entry
announce_keys_all(keys) == keys

\* line 409: every key but 'poller' and 'stats'
announce_keys(keys) ==
    SelectSeq(keys, LAMBDA key : key \notin {"poller", "stats"})

\* json.dumps of the values a registry entry holds
sensor_value(sensor) ==
    [key \in {"name_pretty", "stats", "firmware", "topic"} |->
       CASE key = "name_pretty" -> sensor.name_pretty
         [] key = "stats" ->
              <<"{", "count", ":", ToString(sensor.stats.count), ",",
                "success", ":", ToString(sensor.stats.success), ",",
                "failure", ":", ToString(sensor.stats.failure), "}">>
         [] key = "firmware" -> <<"firmware_version()">>
         [] key = "topic" -> slash(base_topic, sensor.name)]

\* lines 409-410
sensor_info(sensor) ==
    json_dumps(announce_keys(sensor_items(sensor)) \o <<"topic">>,
               sensor_value(sensor))

RECURSIVE sensors_info(_)
\* lines 408-411: sensors_info[sensor_name] = sensor_info for every entry of
\* the chain, as a list of [name, info] in the order of the dict
sensors_info(entries) ==
    IF entries = <<>> THEN <<>>
    ELSE LET n == Len(entries) IN
         dict_set(sensors_info(SubSeq(entries, 1, n - 1)),
                  [name |-> entries[n].name, info |-> sensor_info(entries[n])])

\* lines 406-415
announce_mqtt_json(mifloras, mitempbts) ==
    LET info == sensors_info(chain(mifloras, mitempbts))
        items == [i \in 1..Len(info) |->
                    info[i].name \o <<":">> \o info[i].info
                    \o (IF i < Len(info) THEN <<",">> ELSE <<>>)]
    IN << publish(slash(base_topic, <<"$announce">>),
                  <<"{">> \o concat(items) \o <<"}">>, 0, TRUE) >>

\* the properties line 428 (or 445) names, with unit, datatype and range
homie_properties(sensor_type) ==
    IF sensor_type = sensor_type_miflora
    THEN <<"battery", "conductivity", "light", "moisture", "temperature">>
    ELSE <<"battery", "humidity", "temperature">>

homie_unit(property) ==
    CASE property \in {"battery", "moisture", "humidity"} -> "percent"
      [] property = "conductivity" -> "µS/cm"
      [] property = "light" -> "lux"
      [] property = "temperature" -> "°C"

homie_datatype(property) ==
    IF property = "temperature" THEN "float" ELSE "int"

homie_range(property) ==
    CASE property \in {"battery", "moisture", "humidity"} -> "0:100"
      [] property = "conductivity" -> "0:*"
      [] property = "light" -> "0:50000"
      [] property = "temperature" -> "*"

\* the four publishes per property of lines 429-448 and 455-466
homie_property(topic_path, property) ==
    LET path == slash(topic_path, <<property>>) IN
    << publish(slash(path, <<"$settable">>), <<"false">>, 1, TRUE),
       publish(slash(path, <<"$unit">>), <<homie_unit(property)>>, 1, TRUE),
       publish(slash(path, <<"$datatype">>), <<homie_datatype(property)>>,
               1, TRUE),
       publish(slash(path, <<"$range">>), <<homie_range(property)>>, 1, TRUE) >>

\* lines 425-448 and 450-466: one iteration of the loop over a registry
homie_node(sensor_type, sensor) ==
    LET topic_path == slash(slash(base_topic, device_id), sensor.name)
        properties == homie_properties(sensor_type)
    IN << publish(slash(topic_path, <<"$name">>), sensor.name_pretty, 1, TRUE),
          publish(slash(topic_path, <<"$type">>),
                  <<IF sensor_type = sensor_type_miflora
                    THEN "miflora" ELSE "mitempbt">>, 1, TRUE),
          publish(slash(topic_path, <<"$properties">>),
                  concat([i \in 1..Len(properties) |->
                            <<properties[i]>>
                            \o (IF i < Len(properties) THEN <<",">> ELSE <<>>)]),
                  1, TRUE) >>
       \o concat([i \in 1..Len(properties) |->
                    homie_property(topic_path, properties[i])])

\* lines 416-470
announce_mqtt_homie(mifloras, mitempbts) ==
    LET device == slash(base_topic, device_id)
        nodes == chain(mifloras, mitempbts)
        nodes_list == concat([i \in 1..Len(nodes) |->
                                nodes[i].name
                                \o (IF i < Len(nodes) THEN <<",">> ELSE <<>>)])
    IN << publish(slash(device, <<"$homie">>), <<"2.1.0-alpha">>, 1, TRUE),
          publish(slash(device, <<"$online">>), <<"true">>, 1, TRUE),
          publish(slash(device, <<"$name">>), device_id, 1, TRUE),
          publish(slash(device, <<"$nodes">>), nodes_list, 1, TRUE) >>
       \o concat([i \in 1..Len(mifloras) |->
                    homie_node(sensor_type_miflora, mifloras[i])])
       \o concat([i \in 1..Len(mitempbts) |->
                    homie_node(sensor_type_mitempbt, mitempbts[i])])

\* the 'unit' of lines 36-40 and 44-46
unit(param) ==
    CASE param = "light" -> "lux"
      [] param = "temperature" -> "°C"
      [] param = "conductivity" -> "µS/cm"
      [] param \in {"moisture", "battery", "humidity"} -> "%"

\* the parameters whose table entry has a 'device_class', and its value
has_device_class(param) == param # "conductivity"

device_class(param) ==
    CASE param = "light" -> "illuminance"
      [] param = "temperature" -> "temperature"
      [] param \in {"moisture", "humidity"} -> "humidity"
      [] param = "battery" -> "battery"

\* lines 477-484: the config message of one parameter of one MiFlora sensor
homeassistant_config(sensor, param) ==
    LET topic_path == slash(slash(base_topic, <<"sensor">>), sensor.name)
        keys == <<"state_topic", "unit_of_measurement", "value_template",
                  "name">>
                \o (IF has_device_class(param)
                    THEN <<"device_class">> ELSE <<>>)
        payload ==
          [key \in {"state_topic", "unit_of_measurement", "value_template",
                    "name", "device_class"} |->
             CASE key = "state_topic" -> lower(slash(topic_path, <<"state">>))
               [] key = "unit_of_measurement" -> <<unit(param)>>
               [] key = "value_template" -> <<"{{ value_json.", param, " }}">>
               [] key = "name" -> sensor.name \o <<" ", title(param)>>
               [] key = "device_class" ->
                    IF has_device_class(param)
                    THEN <<device_class(param)>> ELSE <<>>]
    IN publish(lower(slash(slash(topic_path, sensor.name \o <<"_", param>>),
                           <<"config">>)),
               json_dumps(keys, payload), 1, TRUE)

\* lines 473-484: the loop over mifloras.  The loop over mitempbts that
\* follows (lines 485-506) raises at its first sensor before it publishes.
announce_homeassistant(mifloras) ==
    concat([i \in 1..Len(mifloras) |->
              [k \in 1..Len(miflora_parameters) |->
                 homeassistant_config(mifloras[i], miflora_parameters[k])]])

\* the controls of lines 512-520 and 526-530 with their meta/type
wirenboard_controls(sensor_type) ==
    IF sensor_type = sensor_type_miflora
    THEN <<"battery", "conductivity", "light", "moisture", "temperature",
           "timestamp">>
    ELSE <<"battery", "humidity", "temperature", "timestamp">>

wirenboard_type(control) ==
    CASE control \in {"battery", "conductivity", "light"} -> "value"
      [] control \in {"moisture", "humidity"} -> "rel_humidity"
      [] control = "temperature" -> "temperature"
      [] control = "timestamp" -> "text"

\* the controls that get a meta/units message
wirenboard_has_units(control) ==
    control \in {"battery", "conductivity", "light"}

\* lines 510-520 and 524-530: one iteration of the loop over a registry
wirenboard_device(sensor_type, sensor) ==
    LET topic_path == <<"/devices/">> \o sensor.name \o <<"/controls">>
        controls == wirenboard_controls(sensor_type)
    IN << publish(<<"/devices/">> \o sensor.name \o <<"/meta/name">>,
                  sensor.name, 1, TRUE) >>
       \o concat([i \in 1..Len(controls) |->
            << publish(slash(topic_path, <<controls[i], "/meta/type">>),
                       <<wirenboard_type(controls[i])>>, 1, TRUE) >>
            \o (IF wirenboard_has_units(controls[i])
                THEN << publish(slash(topic_path, <<controls[i], "/meta/units">>),
                                <<unit(controls[i])>>, 1, TRUE) >>
                ELSE <<>>)])

\* lines 507-532
announce_wirenboard(mifloras, mitempbts) ==
    concat([i \in 1..Len(mifloras) |->
              wirenboard_device(sensor_type_miflora, mifloras[i])])
    \o concat([i \in 1..Len(mitempbts) |->
                 wirenboard_device(sensor_type_mitempbt, mitempbts[i])])

\* lines 405-532: the publishes of the configured mode, up to the end or up
\* to the statement that raises
announcement(mode, mifloras, mitempbts) ==
    CASE mode = "mqtt-json" -> announce_mqtt_json(mifloras, mitempbts)
      [] mode = "mqtt-homie" -> announce_mqtt_homie(mifloras, mitempbts)
      [] mode = "homeassistant-mqtt" -> announce_homeassistant(mifloras)
      [] mode = "wirenboard-mqtt" -> announce_wirenboard(mifloras, mitempbts)
      [] OTHER -> <<>>

\* ----------------------------------------------------------- main thread
\* sys.exit(1), or an exception nobody catches, in the main thread before any
\* worker exists
Fatal(line) ==
    /\ mainPc' = "exited"
    /\ exitStatus' = "nonzero"
    /\ exitLine' = line

\* lines 339-344
CheckConfiguration ==
    /\ mainPc = "check"
    /\ IF reporting_mode \notin ReportingModes
       THEN Fatal(print_line("reporting_mode set to an invalid value",
                             TRUE, TRUE, TRUE))
       ELSE IF config[sensor_type_miflora] = <<>> /\ config[sensor_type_mitempbt] = <<>>
       THEN Fatal(print_line("No sensors found", TRUE, TRUE, TRUE))
       ELSE mainPc' = "connect" /\ UNCHANGED <<exitStatus, exitLine>>
    /\ UNCHANGED <<cfgVars, unrecorded, brokerCalls, orderVars, username, announced, config, mqtt_connected, sensors, workerVars>>

\* lines 352-389
ConnectBroker ==
    /\ mainPc = "connect"
    /\ IF reporting_mode \in MqttModes
       THEN \E raises \in BOOLEAN :
              IF raises
              THEN /\ Fatal(print_line("MQTT connection error",
                                        TRUE, TRUE, TRUE))
                   /\ brokerCalls' = brokerCalls \cup {"connect"}
                   /\ UNCHANGED mqtt_connected
              ELSE /\ mqtt_connected' = TRUE
                   \* line 383: mqtt-smarthome publishes its connected flag
                   /\ brokerCalls' =
                        brokerCalls \cup {"connect"}
                        \cup (IF reporting_mode = "mqtt-smarthome"
                              THEN {"publish"} ELSE {})
                   /\ mainPc' = "init_miflora"
                   /\ UNCHANGED <<exitStatus, exitLine>>
       ELSE /\ mainPc' = "init_miflora"
            /\ UNCHANGED <<exitStatus, exitLine, mqtt_connected, brokerCalls>>
    /\ UNCHANGED <<cfgVars, unrecorded, orderVars, username, announced, config, sensors, workerVars>>

InitPc(sensor_type) ==
    IF sensor_type = sensor_type_miflora THEN "init_miflora" ELSE "init_mitempbt"

\* the start-up probe of lines 183-186 runs to the end or raises.  What it
\* leaves in poller._cache is not kept: line 204 discards it before anything
\* reads it.
ProbeOutcomes == {"ok", "raises"}

\* the modes in which something reads sensor['firmware']: line 273 (json) and,
\* through sensor.items(), line 409 (mqtt-json).  Line 502 names it too, but
\* line 497 raises before it is evaluated.
reads_firmware(mode) == mode \in {"json", "mqtt-json"}

\* lines 154-196, one iteration of the loop over config[config_section].  The
\* registry keeps `firmware`, whether line 186 has set the key, in the modes
\* that read it; elsewhere the field stays FALSE.
init_sensors_entry(sensor_type) ==
    /\ mainPc = InitPc(sensor_type)
    /\ config[sensor_type] # <<>>
    /\ LET entry == Head(config[sensor_type]) IN
         IF ~ re_match(sensor_type, entry.mac)
         THEN /\ Fatal(print_line("MAC address in the wrong format",
                                   TRUE, TRUE, TRUE))
              /\ UNCHANGED <<config, sensors>>
         ELSE \E probe \in ProbeOutcomes :
                LET sensor ==
                      [name |-> clean_identifier(name_pretty_of(entry.name)),
                       name_pretty |-> name_pretty_of(entry.name),
                       firmware |-> (reads_firmware(reporting_mode)
                                       /\ probe = "ok"),
                       stats |-> [count |-> 0, success |-> 0, failure |-> 0]]
                IN /\ sensors' = [sensors EXCEPT
                                    ![sensor_type] = dict_set(@, sensor)]
                   /\ config' = [config EXCEPT ![sensor_type] = Tail(@)]
                   /\ UNCHANGED <<mainPc, exitStatus, exitLine>>
    /\ UNCHANGED <<cfgVars, unrecorded, brokerCalls, orderVars, username, announced, mqtt_connected, workerVars>>

\* the loop of line 154 is exhausted: init_sensors returns (lines 395-397)
init_sensors_return(sensor_type) ==
    /\ mainPc = InitPc(sensor_type)
    /\ config[sensor_type] = <<>>
    /\ mainPc' = IF sensor_type = sensor_type_miflora
                 THEN "init_mitempbt" ELSE "discovery"
    /\ UNCHANGED <<cfgVars, unrecorded, brokerCalls, orderVars, username, announced, config, exitStatus, exitLine, mqtt_connected, sensors,
                   workerVars>>

\* the modes whose branch of lines 405-532 publishes
DiscoveryModes ==
    {"mqtt-json", "mqtt-homie", "homeassistant-mqtt", "wirenboard-mqtt"}

\* lines 405-532.  No statement of it is inside a try block.  In
\* homeassistant-mqtt mode the loop of line 491 rebinds `sensor` to a
\* parameter name, so sensor['mac'] at line 497 raises TypeError as soon as
\* mitempbts is not empty, after the messages of the MiFlora sensors went out.
\* A publish call that raises ends the process the same way.
DiscoveryAnnouncement ==
    /\ mainPc = "discovery"
    /\ LET messages == announcement(reporting_mode,
                                    sensors[sensor_type_miflora],
                                    sensors[sensor_type_mitempbt])
       IN IF reporting_mode = "homeassistant-mqtt"
             /\ sensors[sensor_type_mitempbt] # <<>>
          THEN /\ Fatal(traceback("TypeError"))
               /\ announced' = messages
               /\ brokerCalls' = brokerCalls \cup
                                   (IF messages # <<>> THEN {"publish"} ELSE {})
          ELSE \E raises \in BOOLEAN :
                 IF raises /\ reporting_mode \in DiscoveryModes
                 THEN /\ Fatal(traceback("publish"))
                      /\ brokerCalls' = brokerCalls \cup {"publish"}
                      /\ UNCHANGED announced
                 ELSE /\ mainPc' = "start_miflora"
                      /\ announced' = messages
                      /\ brokerCalls' = brokerCalls \cup
                                   (IF messages # <<>> THEN {"publish"} ELSE {})
                      /\ UNCHANGED <<exitStatus, exitLine>>
    /\ UNCHANGED <<cfgVars, unrecorded, orderVars, username, config, mqtt_connected, sensors, workerVars>>

\* threads that are started from inside init_sensors
StartPc_in_init(sensor_type) == InitPc(sensor_type)

\* lines 539 and 542 come after the Discovery Announcement
StartPc(sensor_type) ==
    IF sensor_type = sensor_type_miflora THEN "start_miflora" ELSE "start_mitempbt"

\* lines 539-543 with sensorPooler.__init__ (lines 281-290): the thread is
\* created and started only for a non-empty registry
StartWorker(sensor_type) ==
    /\ mainPc = StartPc(sensor_type)
    /\ mainPc' = IF sensor_type = sensor_type_miflora
                 THEN "start_mitempbt" ELSE "join"
    /\ pc' = IF Len(sensors[sensor_type]) # 0
             THEN [pc EXCEPT ![sensor_type] = "locking"]
             ELSE pc
    /\ UNCHANGED <<cfgVars, unrecorded, brokerCalls, orderVars, username, announced, config, exitStatus, exitLine,
                   mqtt_connected, sensors, hciLock, idx, attempts, cache,
                   passes, outcomes, acq, acqStarted, dispatched, crashedAt,
                   data, published>>

Terminated(sensor_type) == pc[sensor_type] \in {"done", "crashed"}

\* lines 545-550: join every started thread, then leave
JoinAndExit ==
    /\ mainPc = "join"
    /\ \A t \in SensorTypes : pc[t] = "idle" \/ Terminated(t)
    /\ mainPc' = "exited"
    /\ exitStatus' = "zero"
    /\ UNCHANGED exitLine
    /\ mqtt_connected' = IF reporting_mode = "mqtt-json" THEN FALSE
                         ELSE mqtt_connected
    /\ brokerCalls' = brokerCalls \cup (IF reporting_mode = "mqtt-json"
                                        THEN {"disconnect"} ELSE {})
    /\ UNCHANGED <<cfgVars, unrecorded, orderVars, username, announced, config, sensors, workerVars>>

\* the CONNACK return codes on_connect tells apart: 0 is success, 5 stands for
\* the refusals (paho's connack_string: 1..5)
ResultCodes == {0, 5}

\* mqtt_client.loop_start() of line 387 has run: paho's network thread calls
\* on_connect for every CONNACK, the one of the first connect and those of its
\* own reconnects, at any time until the process ends
loop_started ==
    mqtt_connected /\ reporting_mode # "thingsboard-json"

\* os._exit(1) of line 103: the process ends at once, with its threads, its
\* lock and its registries
os_exit ==
    /\ mainPc' = "exited"
    /\ exitStatus' = "nonzero"
    /\ pc' = [t \in SensorTypes |->
                IF pc[t] \in {"idle", "done", "crashed"} THEN pc[t] ELSE "killed"]
    /\ hciLock' = "free"
    /\ sensors' = [t \in SensorTypes |-> <<>>]
    /\ idx' = [t \in SensorTypes |-> 0]
    /\ attempts' = [t \in SensorTypes |-> 0]
    /\ cache' = [t \in SensorTypes |-> FALSE]
    /\ outcomes' = [t \in SensorTypes |-> <<>>]
    /\ acq' = [t \in SensorTypes |-> <<>>]
    /\ acqStarted' = [t \in SensorTypes |-> <<>>]
    /\ dispatched' = [t \in SensorTypes |-> {}]
    /\ data' = [t \in SensorTypes |-> <<>>]
    /\ published' = [t \in SensorTypes |-> <<>>]
    /\ visited' = [t \in SensorTypes |-> <<>>]
    /\ lastVisited' = [t \in SensorTypes |-> <<>>]
    /\ unrecorded' = [t \in SensorTypes |-> FALSE]

\* lines 96-103, called on paho's network thread.  With rc = 0 the handler
\* prints and notifies (line 98) and changes nothing else: a stuttering step,
\* which Spec admits in every state.
on_connect ==
    /\ exitStatus = "running"
    /\ loop_started
    /\ \E rc \in ResultCodes :
         /\ rc # 0
         /\ exitLine' = print_line("Connection error with result code",
                                   TRUE, FALSE, TRUE)
         /\ os_exit
         /\ UNCHANGED <<passes, crashedAt>>
    /\ UNCHANGED <<cfgVars, brokerCalls, username, announced, config, mqtt_connected>>

\* ---------------------------------------------------------------- workers
Positions(sensor_type) == 1..Len(sensors[sensor_type])

\* a with block that never gives the lock back
lock_released_kept(lock) == lock

\* threading.Lock.release(), run by the with statement of line 296 when its
\* block is left, normally or by an exception
lock_released(lock) == "free"

\* a lock anyone can take at any time
lock_acquirable_always(lock) == TRUE

\* threading.Lock.acquire(), run by the with statement of line 296: it
\* returns only when nobody holds the lock
lock_acquirable(lock) == lock = "free"

\* an exception that ends the thread with the lock still taken, as after a
\* bare acquire() without a finally
Crash_keeps_lock(sensor_type, step) ==
    /\ pc' = [pc EXCEPT ![sensor_type] = "crashed"]
    /\ crashedAt' = [crashedAt EXCEPT ![sensor_type] = step]
    /\ hciLock' = hciLock
    /\ idx' = [idx EXCEPT ![sensor_type] = 0]
    /\ acq' = [acq EXCEPT ![sensor_type] = <<>>]
    /\ acqStarted' = [acqStarted EXCEPT ![sensor_type] = <<>>]
    /\ dispatched' = [dispatched EXCEPT ![sensor_type] = {}]
    /\ data' = [data EXCEPT ![sensor_type] = <<>>]
    /\ published' = [published EXCEPT ![sensor_type] = <<>>]
    /\ visited' = [visited EXCEPT ![sensor_type] = <<>>]
    /\ lastVisited' = [lastVisited EXCEPT ![sensor_type] = <<>>]

\* an exception leaves pool_sensors and run(): the with statement of line 296
\* releases the lock on the way out and the thread ends
Crash(sensor_type, step) ==
    /\ pc' = [pc EXCEPT ![sensor_type] = "crashed"]
    /\ crashedAt' = [crashedAt EXCEPT ![sensor_type] = step]
    /\ hciLock' = lock_released(hciLock)
    /\ idx' = [idx EXCEPT ![sensor_type] = 0]
    /\ acq' = [acq EXCEPT ![sensor_type] = <<>>]
    /\ acqStarted' = [acqStarted EXCEPT ![sensor_type] = <<>>]
    /\ dispatched' = [dispatched EXCEPT ![sensor_type] = {}]
    /\ data' = [data EXCEPT ![sensor_type] = <<>>]
    /\ published' = [published EXCEPT ![sensor_type] = <<>>]
    /\ visited' = [visited EXCEPT ![sensor_type] = <<>>]
    /\ lastVisited' = [lastVisited EXCEPT ![sensor_type] = <<>>]

\* line 296: "with self.hciLock" blocks until the lock is free; line 297
\* enters pool_sensors
AcquireLock(sensor_type) ==
    /\ pc[sensor_type] = "locking"
    /\ lock_acquirable(hciLock)
    /\ hciLock' = sensor_type
    /\ pc' = [pc EXCEPT ![sensor_type] = "next"]
    /\ idx' = [idx EXCEPT ![sensor_type] = 1]
    /\ passes' = [passes EXCEPT ![sensor_type] = @ + 1]
    /\ acq' = [acq EXCEPT ![sensor_type] =
                 [i \in Positions(sensor_type) |-> "none"]]
    /\ acqStarted' = [acqStarted EXCEPT ![sensor_type] =
                        [i \in Positions(sensor_type) |-> 0]]
    /\ dispatched' = [dispatched EXCEPT ![sensor_type] = {}]
    /\ outcomes' = [outcomes EXCEPT ![sensor_type] = <<>>]
    /\ visited' = [visited EXCEPT ![sensor_type] = <<>>]
    /\ UNCHANGED <<cfgVars, unrecorded, brokerCalls, lastVisited, mainVars, username, data, published,
                   sensors, attempts, cache, crashedAt>>

\* lines 201-207: the for loop yields the next sensor
BeginSensor(sensor_type) ==
    /\ pc[sensor_type] = "next"
    /\ idx[sensor_type] \in Positions(sensor_type)
    /\ attempts' = [attempts EXCEPT ![sensor_type] = 2]
    /\ cache' = [cache EXCEPT ![sensor_type] = FALSE]
    /\ sensors' = [sensors EXCEPT
                     ![sensor_type][idx[sensor_type]].stats.count = @ + 1]
    /\ outcomes' = [outcomes EXCEPT ![sensor_type] = <<>>]
    /\ acqStarted' = [acqStarted EXCEPT
                        ![sensor_type][idx[sensor_type]] = @ + 1]
    /\ visited' = [visited EXCEPT ![sensor_type] =
                     Append(@, sensors[sensor_type][idx[sensor_type]].name)]
    /\ pc' = [pc EXCEPT ![sensor_type] = "attempt"]
    /\ UNCHANGED <<cfgVars, unrecorded, brokerCalls, lastVisited, mainVars, username, data, published,
                   hciLock, idx, passes, acq, dispatched,
                   crashedAt>>

\* what one pass through the try block of lines 209-211 can do: one of the
\* two calls raises (fill_cache, or the Battery probe after fill_cache has
\* returned: the except clause of line 212 is the same for both); both return
\* and the cache is filled; both return and the cache is still empty
AttemptOutcomes == {"raises", "ok", "empty"}

\* line 208, evaluated on the values the attempt leaves
loop_condition(attempts_left, filled) == attempts_left # 0 /\ ~ filled

\* lines 208-219: one iteration of the while loop
Attempt(sensor_type) ==
    /\ pc[sensor_type] = "attempt"
    /\ \E o \in AttemptOutcomes :
         LET raised == (o = "raises")
             attempts_left == IF raised THEN attempts[sensor_type] - 1
                              ELSE attempts[sensor_type]
             filled == (o = "ok")
         IN IF o = "empty" /\ Len(outcomes[sensor_type]) + 1 >= MaxFills
            THEN \* attempts and _cache are as they were, the loop goes round
                 /\ unrecorded' = [unrecorded EXCEPT ![sensor_type] = ~ @]
                 /\ UNCHANGED <<attempts, cache, outcomes, pc>>
            ELSE /\ attempts' = [attempts EXCEPT ![sensor_type] = attempts_left]
                 /\ cache' = [cache EXCEPT ![sensor_type] = filled]
                 /\ outcomes' = [outcomes EXCEPT ![sensor_type] = Append(@, o)]
                 /\ unrecorded' = [unrecorded EXCEPT ![sensor_type] = FALSE]
                 /\ pc' = [pc EXCEPT ![sensor_type] =
                             IF loop_condition(attempts_left, filled)
                             THEN "attempt" ELSE "judge"]
    /\ UNCHANGED <<cfgVars, brokerCalls, orderVars, mainVars, username, data, published,
                   sensors, hciLock, idx, passes, acq,
                   acqStarted, dispatched, crashedAt>>

\* counters that forget the failures
judge_stats_success_only(stats, failed) ==
    IF failed THEN stats ELSE [stats EXCEPT !.success = @ + 1]

\* a failure branch that counts the attempt a second time
judge_stats_counts_again(stats, failed) ==
    IF failed
    THEN [stats EXCEPT !.failure = @ + 1, !.count = @ + 1]
    ELSE [stats EXCEPT !.success = @ + 1]

\* lines 222 and 229
judge_stats(stats, failed) ==
    IF failed
    THEN [stats EXCEPT !.failure = @ + 1]
    ELSE [stats EXCEPT !.success = @ + 1]

\* a loop that goes on to read and publish whatever the acquisition gave
skips_sensor_never(failed) == FALSE

\* the "continue" of line 227 is taken exactly on the failure branch
skips_sensor(failed) == failed

\* a "continue" that also passes over the sensor after the failed one
continue_at_skip(i, n) == i + 2

\* a "break" in the place of the "continue"
continue_at_break(i, n) == n + 1

\* line 227: "continue" moves the for loop of line 201 to the next sensor
continue_at(i, n) == i + 1

\* lines 221-229
Judge(sensor_type) ==
    /\ pc[sensor_type] = "judge"
    /\ LET i == idx[sensor_type]
           failed == ~ cache[sensor_type]
       IN /\ sensors' = [sensors EXCEPT
                           ![sensor_type][i].stats = judge_stats(@, failed)]
          /\ acq' = [acq EXCEPT ![sensor_type][i] =
                       IF failed THEN "failure" ELSE "success"]
          /\ IF skips_sensor(failed)
             THEN /\ idx' = [idx EXCEPT ![sensor_type] =
                               continue_at(i, Len(sensors[sensor_type]))]
                  /\ pc' = [pc EXCEPT ![sensor_type] = "next"]
             ELSE /\ pc' = [pc EXCEPT ![sensor_type] = "read"]
                  /\ UNCHANGED idx
    \* the local of line 203 and the attempt history are dead from here on
    /\ attempts' = [attempts EXCEPT ![sensor_type] = 0]
    /\ outcomes' = [outcomes EXCEPT ![sensor_type] = <<>>]
    /\ UNCHANGED <<cfgVars, unrecorded, brokerCalls, orderVars, mainVars, username, data, published,
                   hciLock, cache, passes, acqStarted,
                   dispatched, crashedAt>>

\* what the reader's cache can hold after a fill: the value parameter_value
\* returns for each parameter
Readings ==
    { [light |-> "230", temperature |-> "21.4", moisture |-> "37",
       conductivity |-> "412", battery |-> "98", humidity |-> "55"],
      [light |-> "0", temperature |-> "-3.0", moisture |-> "5",
       conductivity |-> "0", battery |-> "12", humidity |-> "91"] }

\* lines 231-232: data[param] = parameter_value(param), in the order of the
\* parameter table
read_data(parameters, reading) ==
    [i \in 1..Len(parameters) |->
       [name |-> parameters[i], value |-> reading[parameters[i]]]]

\* lines 231-233: parameter_value for every parameter, outside any try
ReadParameters(sensor_type) ==
    /\ pc[sensor_type] = "read"
    /\ \/ Crash(sensor_type, "read")
       \/ \E reading \in Readings :
            /\ data' = [data EXCEPT ![sensor_type] =
                          read_data(parameters_of(sensor_type), reading)]
            /\ pc' = [pc EXCEPT ![sensor_type] = "dispatch"]
            /\ UNCHANGED <<orderVars, hciLock, crashedAt, idx, acq, acqStarted,
                           dispatched, published>>
    /\ UNCHANGED <<cfgVars, unrecorded, brokerCalls, mainVars, username, sensors, attempts, cache,
                   passes, outcomes>>

\* dict.keys() and the serialised values of a dict
dict_keys(dict) == [i \in 1..Len(dict) |-> dict[i].name]

dict_values(dict) ==
    [key \in {dict[i].name : i \in 1..Len(dict)} |->
       <<dict[CHOOSE i \in 1..Len(dict) : dict[i].name = key].value>>]

\* a publish that asks the broker to retain the reading
publish_mqtt_json_retained(sensor_name, dict) ==
    << publish(slash(base_topic, sensor_name),
               json_dumps(dict_keys(dict), dict_values(dict)), 0, TRUE) >>

\* line 237
publish_mqtt_json(sensor_name, dict) ==
    << publish(slash(base_topic, sensor_name),
               json_dumps(dict_keys(dict), dict_values(dict)), 0, FALSE) >>

\* line 244
publish_thingsboard_json(sensor_name, dict) ==
    << publish(base_topic,
               json_dumps(dict_keys(dict), dict_values(dict)), 0, FALSE) >>

\* line 248
publish_homeassistant_mqtt(sensor_name, dict) ==
    << publish(lower(slash(slash(slash(base_topic, <<"sensor">>), sensor_name),
                           <<"state">>)),
               json_dumps(dict_keys(dict), dict_values(dict)), 0, TRUE) >>

\* a loop that stops after the first parameter
publish_mqtt_homie_first_only(sensor_name, dict) ==
    [i \in 1..1 |->
       publish(slash(slash(slash(base_topic, device_id), sensor_name),
                     <<dict[i].name>>),
               <<dict[i].value>>, 1, FALSE)]

\* lines 252-253
publish_mqtt_homie(sensor_name, dict) ==
    [i \in 1..Len(dict) |->
       publish(slash(slash(slash(base_topic, device_id), sensor_name),
                     <<dict[i].name>>),
               <<dict[i].value>>, 1, FALSE)]

\* lines 256-261; payload['ts'] is the clock at the time of the call
publish_mqtt_smarthome(sensor_name, dict) ==
    [i \in 1..Len(dict) |->
       publish(slash(slash(slash(base_topic, <<"status">>), sensor_name),
                     <<dict[i].name>>),
               json_dumps(<<"val", "ts">>,
                          [key \in {"val", "ts"} |->
                             IF key = "val" THEN <<dict[i].value>>
                             ELSE <<"time()">>]),
               0, TRUE)]

\* lines 264-267
publish_wirenboard_mqtt(sensor_name, dict) ==
    [i \in 1..Len(dict) |->
       publish(<<"/devices/">> \o sensor_name
                 \o <<"/controls/", dict[i].name>>,
               <<dict[i].value>>, 0, TRUE)]
    \o << publish(<<"/devices/">> \o sensor_name
                    \o <<"/controls/", "timestamp">>,
                  <<"strftime()">>, 0, TRUE) >>

\* the publish calls of the branch of lines 235-268 the mode selects
dispatch_messages(mode, sensor_name, dict) ==
    CASE mode = "mqtt-json" -> publish_mqtt_json(sensor_name, dict)
      [] mode = "thingsboard-json" -> publish_thingsboard_json(sensor_name, dict)
      [] mode = "homeassistant-mqtt" ->
           publish_homeassistant_mqtt(sensor_name, dict)
      [] mode = "mqtt-homie" -> publish_mqtt_homie(sensor_name, dict)
      [] mode = "mqtt-smarthome" -> publish_mqtt_smarthome(sensor_name, dict)
      [] mode = "wirenboard-mqtt" -> publish_wirenboard_mqtt(sensor_name, dict)

\* lines 235-277: the branch of the configured mode, up to its first sleep
Dispatch(sensor_type) ==
    /\ pc[sensor_type] = "dispatch"
    /\ LET i == idx[sensor_type]
           sensor == sensors[sensor_type][i]
       IN
       IF reporting_mode = "json"
       THEN \* lines 269-275: sensor['firmware'] is a KeyError when the
            \* start-up probe failed (line 186 never ran to completion)
            IF ~ sensor.firmware
            THEN Crash(sensor_type, "firmware")
                 /\ UNCHANGED <<username, brokerCalls>>
            ELSE /\ dispatched' = [dispatched EXCEPT ![sensor_type] = @ \cup {i}]
                 /\ idx' = [idx EXCEPT ![sensor_type] = @ + 1]
                 /\ pc' = [pc EXCEPT ![sensor_type] = "next"]
                 /\ data' = [data EXCEPT ![sensor_type] = <<>>]
                 /\ UNCHANGED <<orderVars, hciLock, crashedAt, acq, acqStarted,
                                published, username, brokerCalls>>
       ELSE IF reporting_mode = "thingsboard-json"
       THEN \* lines 240-241: username_pw_set(sensor_name)
            /\ username' = sensor.name
            /\ pc' = [pc EXCEPT ![sensor_type] = "tb_reconnect"]
            /\ UNCHANGED <<orderVars, hciLock, crashedAt, idx, acq, acqStarted,
                           dispatched, data, published, brokerCalls>>
       ELSE IF reporting_mode \in MqttModes
       THEN \* the publish calls of the mode's branch
            /\ brokerCalls' = brokerCalls \cup {"publish"}
            /\ \/ Crash(sensor_type, "publish") /\ UNCHANGED username
               \/ /\ published' = [published EXCEPT ![sensor_type] =
                                     dispatch_messages(reporting_mode,
                                                       sensor.name,
                                                       data[sensor_type])]
                  /\ dispatched' = [dispatched EXCEPT
                                      ![sensor_type] = @ \cup {i}]
                  /\ pc' = [pc EXCEPT ![sensor_type] = "slack"]
                  /\ UNCHANGED <<orderVars, hciLock, crashedAt, idx, acq,
                                 acqStarted, data, username>>
       ELSE \* line 277
            Crash(sensor_type, "mode") /\ UNCHANGED <<username, brokerCalls>>
    /\ UNCHANGED <<cfgVars, unrecorded, mainVars, sensors, attempts, cache, passes,
                   outcomes>>

\* lines 242-243: mqtt_client.reconnect(), then sleep(1.0)
Reconnect(sensor_type) ==
    /\ pc[sensor_type] = "tb_reconnect"
    /\ brokerCalls' = brokerCalls \cup {"reconnect"}
    /\ \/ Crash(sensor_type, "reconnect")
       \/ /\ pc' = [pc EXCEPT ![sensor_type] = "tb_publish"]
          /\ UNCHANGED <<orderVars, hciLock, crashedAt, idx, acq, acqStarted,
                         dispatched, data, published>>
    /\ UNCHANGED <<cfgVars, unrecorded, mainVars, username, sensors, attempts, cache,
                   passes, outcomes>>

\* line 244
PublishTelemetry(sensor_type) ==
    /\ pc[sensor_type] = "tb_publish"
    /\ brokerCalls' = brokerCalls \cup {"publish"}
    /\ \/ Crash(sensor_type, "publish")
       \/ /\ published' = [published EXCEPT ![sensor_type] =
                             dispatch_messages(reporting_mode,
                               sensors[sensor_type][idx[sensor_type]].name,
                               data[sensor_type])]
          /\ dispatched' = [dispatched EXCEPT
                              ![sensor_type] = @ \cup {idx[sensor_type]}]
          /\ pc' = [pc EXCEPT ![sensor_type] = "slack"]
          /\ UNCHANGED <<orderVars, hciLock, crashedAt, idx, acq, acqStarted, data>>
    /\ UNCHANGED <<cfgVars, unrecorded, mainVars, username, sensors, attempts, cache,
                   passes, outcomes>>

\* the sleep(0.5) that ends every broker branch, then line 278 and the next
\* iteration of the for loop, whose line 202 starts a new dict
SlackSleep(sensor_type) ==
    /\ pc[sensor_type] = "slack"
    /\ idx' = [idx EXCEPT ![sensor_type] = @ + 1]
    /\ pc' = [pc EXCEPT ![sensor_type] = "next"]
    /\ data' = [data EXCEPT ![sensor_type] = <<>>]
    /\ published' = [published EXCEPT ![sensor_type] = <<>>]
    /\ UNCHANGED <<cfgVars, unrecorded, brokerCalls, orderVars, mainVars, username, sensors, hciLock, attempts,
                   cache, passes, outcomes, acq, acqStarted, dispatched,
                   crashedAt>>

\* a loop that sleeps and goes round whatever the configuration says
after_pass_always_loops(daemon) == "sleeping"

\* lines 299-306: sleep and loop in daemon mode, else break and finish
after_pass(daemon) == IF daemon THEN "sleeping" ELSE "done"

\* the for loop of line 201 is exhausted: pool_sensors returns, the with
\* block of line 296 releases the lock, then lines 299-306
EndPass(sensor_type) ==
    /\ pc[sensor_type] = "next"
    /\ idx[sensor_type] \notin Positions(sensor_type)
    /\ hciLock' = lock_released(hciLock)
    /\ pc' = [pc EXCEPT ![sensor_type] = after_pass(daemon_enabled)]
    \* the locals of pool_sensors and the history of the pass end with it
    /\ idx' = [idx EXCEPT ![sensor_type] = 0]
    /\ acq' = [acq EXCEPT ![sensor_type] = <<>>]
    /\ acqStarted' = [acqStarted EXCEPT ![sensor_type] = <<>>]
    /\ dispatched' = [dispatched EXCEPT ![sensor_type] = {}]
    /\ lastVisited' = [lastVisited EXCEPT ![sensor_type] = visited[sensor_type]]
    /\ visited' = [visited EXCEPT ![sensor_type] = <<>>]
    /\ UNCHANGED <<cfgVars, unrecorded, brokerCalls, mainVars, username, data, published,
                   sensors, attempts, cache, passes,
                   outcomes, crashedAt>>

\* line 302 returns: back to the head of "while True"
WakeUp(sensor_type) ==
    /\ pc[sensor_type] = "sleeping"
    /\ passes[sensor_type_miflora] + passes[sensor_type_mitempbt] < MaxCycles
    /\ pc' = [pc EXCEPT ![sensor_type] = "locking"]
    /\ UNCHANGED <<cfgVars, unrecorded, brokerCalls, orderVars, mainVars, username, data, published,
                   sensors, hciLock, idx, attempts, cache,
                   passes, outcomes, acq, acqStarted, dispatched, crashedAt>>

\* ------------------------------------------------------------------ spec
Next ==
    \/ CheckConfiguration
    \/ ConnectBroker
    \/ \E t \in SensorTypes : init_sensors_entry(t)
    \/ \E t \in SensorTypes : init_sensors_return(t)
    \/ DiscoveryAnnouncement
    \/ \E t \in SensorTypes : StartWorker(t)
    \/ JoinAndExit
    \/ on_connect
    \/ \E t \in SensorTypes : AcquireLock(t)
    \/ \E t \in SensorTypes : BeginSensor(t)
    \/ \E t \in SensorTypes : Attempt(t)
    \/ \E t \in SensorTypes : Judge(t)
    \/ \E t \in SensorTypes : ReadParameters(t)
    \/ \E t \in SensorTypes : Dispatch(t)
    \/ \E t \in SensorTypes : Reconnect(t)
    \/ \E t \in SensorTypes : PublishTelemetry(t)
    \/ \E t \in SensorTypes : SlackSleep(t)
    \/ \E t \in SensorTypes : EndPass(t)
    \/ \E t \in SensorTypes : WakeUp(t)

Spec == Init /\ [][Next]_vars

TypeOK ==
    /\ reporting_mode \in ConfiguredModes
    /\ unrecorded \in [SensorTypes -> BOOLEAN]
    /\ daemon_enabled \in BOOLEAN
    /\ hciLock \in SensorTypes \cup {"free"}
    /\ exitStatus \in {"running", "zero", "nonzero"}
    /\ \A t \in SensorTypes :
         /\ pc[t] \in {"idle", "locking", "next", "attempt", "judge", "read",
                       "dispatch", "tb_reconnect", "tb_publish", "slack",
                       "sleeping", "done", "crashed", "killed"}
         /\ attempts[t] \in 0..2
         /\ passes[t] \in 0..MaxCycles
         /\ cache[t] \in BOOLEAN

\* ---------------------------------------------------------------- claims
\* the worker is between the acquisition of the lock at line 296 and the end
\* of its pool_sensors call
InPass(t) ==
    pc[t] \in {"next", "attempt", "judge", "read", "dispatch", "tb_reconnect",
               "tb_publish", "slack"}

Other(t) == CHOOSE u \in SensorTypes : u # t

\* the worker is at a broker call of its dispatch branch, or in the slack
\* sleep after it
AtBrokerIO(t) ==
    \/ pc[t] \in {"tb_reconnect", "tb_publish", "slack"}
    \/ pc[t] = "dispatch" /\ reporting_mode \in MqttModes

Raised == {"raises"}

\* C1: at most one worker is inside a polling pass (holds hciLock) at any
\* time, and the worker inside a pass is the one the lock names.
C1_MutualExclusion ==
    /\ \A t, u \in SensorTypes : InPass(t) /\ InPass(u) => t = u
    /\ \A t \in SensorTypes : InPass(t) => hciLock = t

\* one worker polls while the other, back from its sleep, waits for the lock
\* to start its second cycle
C1_Witness ==
    \E t \in SensorTypes :
       /\ pc[t] = "attempt" /\ hciLock = t
       /\ pc[Other(t)] = "locking" /\ passes[Other(t)] = 1

\* C2: for every sensor its worker is not in the middle of acquiring,
\* stats.count = stats.success + stats.failure; this includes the sensors of
\* a worker whose pass ended with an exception.
C2_CountIsSuccessPlusFailure ==
    \A t \in SensorTypes : \A i \in Positions(t) :
       ~ (pc[t] \in {"attempt", "judge"} /\ idx[t] = i)
       => sensors[t][i].stats.count
            = sensors[t][i].stats.success + sensors[t][i].stats.failure

\* a worker ended by an exception in its second pass, with a sensor that has
\* both a success and a failure on record
C2_Witness ==
    \E t \in SensorTypes : \E i \in Positions(t) :
       /\ pc[t] = "crashed"
       /\ sensors[t][i].stats.success = 1
       /\ sensors[t][i].stats.failure = 1

\* C3: one acquisition never makes more than two fill_cache attempts,
\* whatever the reader does.
C3_AtMostTwoFills ==
    \A t \in SensorTypes : Len(outcomes[t]) <= 2

\* C4: an acquisition is judged a failure only after exactly two attempts
\* that both raised (in fill_cache or in the Battery probe), and once an
\* attempt has filled the cache the acquisition is judged a success.
C4_FailureOnlyAfterTwoFailedAttempts ==
    [][\A t \in SensorTypes :
         pc[t] = "judge" /\ pc'[t] \in {"next", "read"} =>
           /\ acq'[t][idx[t]] = "failure" =>
                /\ Len(outcomes[t]) = 2
                /\ \A k \in 1..Len(outcomes[t]) : outcomes[t][k] \in Raised
           /\ (\E k \in 1..Len(outcomes[t]) : outcomes[t][k] = "ok") =>
                acq'[t][idx[t]] = "success"]_vars

\* C5: within a pass, a publish or data print is issued only for a sensor
\* whose acquisition succeeded in that pass; a worker at a dispatch step is
\* at such a sensor.
C5_DispatchOnlyAfterSuccess ==
    \A t \in SensorTypes :
       /\ \A i \in dispatched[t] : acq[t][i] = "success"
       /\ pc[t] \in {"read", "dispatch", "tb_reconnect", "tb_publish", "slack"}
            => acq[t][idx[t]] = "success"

\* the first sensor of a pass failed and was skipped, the second was
\* dispatched
C5_Witness ==
    \E t \in SensorTypes :
       /\ InPass(t) /\ Len(sensors[t]) = 2
       /\ acq[t][1] = "failure"
       /\ dispatched[t] = {2}

\* C6: in one-shot mode a worker takes the lock and starts a pass at most
\* once, never sleeps, and is terminated as soon as its one pass is over
\* (unless the whole process was ended under it by os._exit).
C6_OneShotSinglePass ==
    ~ daemon_enabled =>
      \A t \in SensorTypes :
         /\ passes[t] <= 1
         /\ pc[t] # "sleeping"
         /\ pc[t] = "done" => passes[t] = 1
         /\ passes[t] = 1 /\ ~ InPass(t) => Terminated(t) \/ pc[t] = "killed"

\* one-shot mode, both workers done after one pass each
C6_Witness ==
    /\ ~ daemon_enabled
    /\ \A t \in SensorTypes : pc[t] = "done" /\ passes[t] = 1

\* C7: in daemon mode no worker ever terminates.
C7_DaemonWorkerNeverTerminates ==
    daemon_enabled => \A t \in SensorTypes : ~ Terminated(t)

\* C8 as stated: no worker is at a broker publish, a broker reconnect or the
\* slack sleep after a publish while it holds hciLock.
C8_NoBrokerIOUnderLock ==
    \A t \in SensorTypes : AtBrokerIO(t) => hciLock # t

\* C8 as amended: every broker publish, reconnect and slack sleep of a worker
\* happens while that worker holds hciLock; the lock is given back when the
\* pass ends, so a worker that is waiting, sleeping or terminated does not
\* hold it.
C8_BrokerIOUnderLockReleasedAfterPass ==
    \A t \in SensorTypes :
       /\ AtBrokerIO(t) => hciLock = t
       /\ ~ InPass(t) => hciLock # t

\* one worker is in the slack sleep after its publish, holding the lock the
\* other worker waits for
C8_Witness ==
    \E t \in SensorTypes :
       pc[t] = "slack" /\ hciLock = t /\ pc[Other(t)] = "locking"

\* C9: in a pass, every sensor the for loop has gone past was acquired exactly
\* once and has an outcome, the sensor it is at was acquired at most once and
\* the sensors ahead not yet; so when the loop is exhausted every sensor of
\* the registry was acquired exactly once, failures before it or not.
C9_EverySensorAcquiredOnce ==
    \A t \in SensorTypes :
       InPass(t) =>
         \A i \in Positions(t) :
            /\ i < idx[t] => acqStarted[t][i] = 1 /\ acq[t][i] # "none"
            /\ i = idx[t] => acqStarted[t][i] = (IF pc[t] = "next" THEN 0 ELSE 1)
            /\ i > idx[t] => acqStarted[t][i] = 0 /\ acq[t][i] = "none"

\* a pass over two sensors is complete; the first sensor failed and the second
\* was acquired all the same
C9_Witness ==
    \E t \in SensorTypes :
       /\ pc[t] = "next" /\ Len(sensors[t]) = 2 /\ idx[t] = 3
       /\ acq[t][1] = "failure"
       /\ acqStarted[t][2] = 1 /\ acq[t][2] # "none"

\* the whole address is one of the class: line 146 or 149 describes six octets
well_formed(sensor_type, mac) ==
    re_match(sensor_type, mac) /\ mac.tail = ""

\* C10: the step the main thread takes on a configuration failure (mode not
\* among the seven, both sections empty, connect raising, an address that is
\* not an address of its class) ends the process with a non-zero status; as
\* no worker exists before line 540, none ever runs.
C10_ConfigurationFailureIsFatal ==
    [][/\ (mainPc = "check" /\ reporting_mode \notin ReportingModes)
            => exitStatus' = "nonzero"
       /\ (mainPc = "check" /\ \A t \in SensorTypes : config[t] = <<>>)
            => exitStatus' = "nonzero"
       /\ (mainPc = "connect" /\ reporting_mode \in MqttModes /\ ~ mqtt_connected')
            => exitStatus' = "nonzero"
       /\ \A t \in SensorTypes :
            (mainPc = InitPc(t) /\ config[t] # <<>>
               /\ ~ well_formed(t, Head(config[t]).mac))
            => exitStatus' = "nonzero"
       /\ (exitStatus' = "nonzero" /\ mainPc \in {"check", "connect", "init_miflora", "init_mitempbt"})
            => \A t \in SensorTypes : pc'[t] = "idle"]_vars

\* the diagnostics of the fatal conditions of lines 340, 343, 156, 382 and 101
FatalConditions ==
    {"reporting_mode set to an invalid value", "No sensors found",
     "MAC address in the wrong format", "MQTT connection error",
     "Connection error with result code"}

\* C11: a process that ended on one of the fatal conditions (invalid mode,
\* empty registries, invalid address, connect raising, a CONNACK that is not
\* a success) has printed a diagnostic on the console and sent a STATUS
\* notification to systemd before it exited.
C11_FatalExitPrintsAndNotifies ==
    exitStatus = "nonzero" /\ exitLine.text \in FatalConditions
    => exitLine.console /\ exitLine.error /\ exitLine.sd_notify

\* the order of the statements of the main thread
MainOrder ==
    <<"check", "connect", "init_miflora", "init_mitempbt", "discovery",
      "start_miflora", "start_mitempbt", "join", "exited">>

main_position(at) == CHOOSE k \in 1..Len(MainOrder) : MainOrder[k] = at

\* C12: the discovery messages are published in one step of the main thread,
\* taken while no worker has been started; a worker is started only by a later
\* statement, so it takes the lock, polls and publishes only after the last
\* discovery message; and the main thread never goes back, so the
\* announcement runs at most once.
C12_DiscoveryBeforeWorkers ==
    [][/\ announced' # announced =>
            /\ mainPc = "discovery" /\ announced = <<>>
            /\ \A t \in SensorTypes : pc[t] = "idle" /\ pc'[t] = "idle"
       /\ \A t \in SensorTypes :
            pc[t] = "idle" /\ pc'[t] # "idle" =>
              main_position(mainPc) > main_position("discovery")
       /\ main_position(mainPc') >= main_position(mainPc)
       /\ mainPc = "discovery" /\ mainPc' # mainPc =>
            main_position(mainPc') > main_position("discovery")]_vars

\* the homie announcement is out and a worker is polling
C12_Witness ==
    /\ reporting_mode = "mqtt-homie"
    /\ announced # <<>>
    /\ \E t \in SensorTypes : pc[t] = "attempt"

\* the process ended on an exception raised inside the Discovery Announcement
DiscoveryFailed ==
    /\ exitStatus = "nonzero"
    /\ exitLine \in {traceback("TypeError"), traceback("publish")}

\* C13: an error raised while a discovery descriptor is built or published
\* does not end the process: no run ends on such an exception, so the main
\* thread goes on to start the workers of the non-empty registries.
C13_DiscoveryFailureNotFatal ==
    ~ DiscoveryFailed

\* the value the Reading of worker t holds for a parameter
reading_value(t, param) ==
    data[t][CHOOSE i \in 1..Len(data[t]) : data[t][i].name = param].value

\* the Reading of worker t has exactly the parameters of its class
whole_reading(t) ==
    /\ Len(data[t]) = Len(parameters_of(t))
    /\ \A k \in 1..Len(parameters_of(t)) :
         \E i \in 1..Len(data[t]) : data[t][i].name = parameters_of(t)[k]

\* in the pass of worker t, the sensors behind the for loop that were
\* acquired with success are those a dispatch was issued for
dispatched_once_per_success(t) ==
    /\ \A i \in Positions(t) :
         i < idx[t] => (acq[t][i] = "success" <=> i \in dispatched[t])
    /\ pc[t] = "slack" <=> published[t] # <<>>

\* C14: in mqtt-json mode a successful acquisition whose dispatch returned has
\* handed the client exactly one message: topic {base_topic}/{sensor name},
\* payload the JSON object of exactly the class's parameters with the values
\* read, QoS 0, not retained; nothing is published for a failed acquisition.
C14_MqttJsonOnePublishPerReading ==
    reporting_mode = "mqtt-json" =>
      \A t \in SensorTypes :
         /\ InPass(t) => dispatched_once_per_success(t)
         /\ pc[t] = "slack" =>
              /\ Len(published[t]) = 1
              /\ whole_reading(t)
              /\ published[t][1].topic
                   = <<"misensor", "/">> \o sensors[t][idx[t]].name
              /\ published[t][1].payload
                   = json_dumps(parameters_of(t),
                                [param \in {parameters_of(t)[k] :
                                              k \in 1..Len(parameters_of(t))}
                                   |-> <<reading_value(t, param)>>])
              /\ published[t][1].qos = 0
              /\ published[t][1].retain = FALSE

\* the second sensor of a MiTempBt pass is published after the first failed
C14_Witness ==
    /\ reporting_mode = "mqtt-json"
    /\ pc[sensor_type_mitempbt] = "slack"
    /\ idx[sensor_type_mitempbt] = 2
    /\ acq[sensor_type_mitempbt][1] = "failure"
    /\ published[sensor_type_mitempbt][1].payload
         = <<"{", "temperature", ":", "-3.0", ",", "humidity", ":", "91", ",",
             "battery", ":", "12", "}">>

\* C15: in mqtt-homie mode a successful acquisition whose dispatch returned
\* has handed the client as many messages as the class has parameters, for
\* each parameter exactly one, with topic
\* {base_topic}/{device_id}/{sensor name}/{parameter}, the value read as
\* payload, QoS 1, not retained; nothing else is published for the sensor and
\* nothing for a failed acquisition.
C15_HomieOnePublishPerParameter ==
    reporting_mode = "mqtt-homie" =>
      \A t \in SensorTypes :
         /\ InPass(t) => dispatched_once_per_success(t)
         /\ pc[t] = "slack" =>
              /\ whole_reading(t)
              /\ Len(published[t]) = Len(parameters_of(t))
              /\ \A k \in 1..Len(parameters_of(t)) :
                   LET param == parameters_of(t)[k]
                       to_param ==
                         {m \in 1..Len(published[t]) :
                            published[t][m].topic
                              = <<"homie", "/", "miflora-mqtt-daemon", "/">>
                                \o sensors[t][idx[t]].name \o <<"/", param>>}
                   IN /\ Cardinality(to_param) = 1
                      /\ \A m \in to_param :
                           /\ published[t][m].payload
                                = <<reading_value(t, param)>>
                           /\ published[t][m].qos = 1
                           /\ published[t][m].retain = FALSE

\* the five parameters of a MiFlora sensor went out, the light value first
C15_Witness ==
    /\ reporting_mode = "mqtt-homie"
    /\ pc[sensor_type_miflora] = "slack"
    /\ Len(published[sensor_type_miflora]) = 5
    /\ published[sensor_type_miflora][1].topic
         = <<"homie", "/", "miflora-mqtt-daemon", "/", "a", "-", "b", "/",
             "light">>
    /\ published[sensor_type_miflora][1].payload = <<"230">>

\* C16: once the Discovery Announcement has run, running it again on the
\* registries and the configuration as they are now, whatever the workers
\* have done to the health counters since, gives the messages (topic, payload,
\* QoS, retain) it gave the first time.
C16_DiscoveryIdempotent ==
    main_position(mainPc) > main_position("discovery") /\ exitStatus # "nonzero"
    => announcement(reporting_mode, sensors[sensor_type_miflora],
                    sensors[sensor_type_mitempbt]) = announced

\* mqtt-json, whose announcement copies the registry entries: a sensor has a
\* success and a failure on record
C16_Witness ==
    /\ reporting_mode = "mqtt-json"
    /\ announced # <<>>
    /\ exitStatus = "running"
    /\ \E t \in SensorTypes : \E i \in Positions(t) :
         sensors[t][i].stats.success = 1 /\ sensors[t][i].stats.failure = 1

\* C17: a worker in the sleep between two cycles (line 302) does not hold
\* hciLock: the lock is then free or held by the other worker, which is inside
\* its own pass; so a worker waiting at line 296 during that sleep is stopped
\* by nobody but a worker that is polling.
C17_SleepingWorkerHoldsNoLock ==
    \A t \in SensorTypes :
       pc[t] = "sleeping" =>
         /\ hciLock # t
         /\ hciLock = "free" \/ InPass(Other(t))
         /\ pc[Other(t)] = "locking" /\ hciLock = "free"
              => ENABLED AcquireLock(Other(t))

\* a worker sleeps after its pass while the other worker, which has the
\* lock, is in the slack sleep after a publish
C17_Witness ==
    \E t \in SensorTypes :
       /\ pc[t] = "sleeping" /\ passes[t] = 1
       /\ hciLock = Other(t) /\ pc[Other(t)] = "slack"

\* the worker is between its username_pw_set (line 241) and the return of
\* its publish (line 244)
InCredentialSequence(t) == pc[t] \in {"tb_reconnect", "tb_publish"}

\* C18 as stated: the sequence set-credentials / reconnect / publish of
\* thingsboard-json mode is not guarded by the bus lock: a worker inside the
\* sequence does not hold hciLock, which is what lets the other worker
\* reconnect in the middle of it.
C18_CredentialSequenceUnguarded ==
    reporting_mode = "thingsboard-json" =>
      \A t \in SensorTypes : InCredentialSequence(t) => hciLock # t

\* C18 as amended: a worker inside the sequence holds hciLock, so the other
\* worker is not inside the sequence at the same time, and the client's user
\* name is that of the worker's own sensor from the credential switch until
\* the slack sleep after the publish is over.
C18_CredentialSequenceUnderLock ==
    reporting_mode = "thingsboard-json" =>
      \A t \in SensorTypes :
         /\ InCredentialSequence(t) =>
              hciLock = t /\ ~ InCredentialSequence(Other(t))
         /\ InCredentialSequence(t) \/ pc[t] = "slack" =>
              username = sensors[t][idx[t]].name

\* a worker has reconnected under the name of its sensor and is about to
\* publish; the other worker has published for its own sensor in the pass it
\* sleeps after
C18_Witness ==
    \E t \in SensorTypes :
       /\ reporting_mode = "thingsboard-json"
       /\ pc[t] = "tb_publish" /\ username = sensors[t][1].name
       /\ pc[Other(t)] = "sleeping"
       /\ \E i \in Positions(Other(t)) : sensors[Other(t)][i].stats.success = 1

\* C19: a step that dispatches (publishes or prints) a Reading dispatches the
\* sensor the for loop is at, whose acquisition succeeded in this pass, while
\* no later sensor of the registry has been touched; and when the acquisition
\* of a sensor begins, no Reading is pending: every sensor before it that was
\* acquired with success has been dispatched and the dict and the message
\* list are empty.
C19_DispatchedPerSensorImmediately ==
    [][\A t \in SensorTypes :
         /\ dispatched'[t] \ dispatched[t] # {} =>
              /\ dispatched'[t] = dispatched[t] \cup {idx[t]}
              /\ acq[t][idx[t]] = "success"
              /\ \A j \in Positions(t) : j > idx[t] => acqStarted[t][j] = 0
         /\ pc[t] = "next" /\ pc'[t] = "attempt" =>
              /\ data[t] = <<>> /\ published[t] = <<>>
              /\ \A j \in Positions(t) :
                   j < idx[t] /\ acq[t][j] = "success" => j \in dispatched[t]]_vars

\* the first sensor of the pass has been dispatched and the acquisition of
\* the second is under way
C19_Witness ==
    \E t \in SensorTypes :
       pc[t] = "attempt" /\ idx[t] = 2 /\ dispatched[t] = {1}

\* C20: in every step, no counter of any sensor decreases; a sensor's
\* counters change only in a step of the worker of its class that holds the
\* lock and whose for loop is at that sensor, and then either the
\* acquisition begins and count alone grows by 1, or the acquisition is
\* judged and exactly one of success and failure grows by 1.  Every begun
\* acquisition does the first, every judged one the second.
C20_CountersChangeOnlyByOwnAcquisition ==
    [][\A t \in SensorTypes :
         /\ \A i \in Positions(t) :
              i <= Len(sensors'[t]) =>
                LET old == sensors[t][i].stats
                    new == sensors'[t][i].stats
                IN /\ new.count >= old.count
                   /\ new.success >= old.success
                   /\ new.failure >= old.failure
                   /\ new # old =>
                        /\ idx[t] = i /\ hciLock = t
                        /\ \/ /\ pc[t] = "next" /\ pc'[t] = "attempt"
                              /\ new = [old EXCEPT !.count = @ + 1]
                           \/ /\ pc[t] = "judge"
                              /\ \/ new = [old EXCEPT !.success = @ + 1]
                                 \/ new = [old EXCEPT !.failure = @ + 1]
         /\ pc[t] = "next" /\ pc'[t] = "attempt" =>
              sensors'[t][idx[t]].stats # sensors[t][idx[t]].stats
         /\ pc[t] = "judge" /\ pc'[t] \in {"next", "read"} =>
              sensors'[t][idx[t]].stats # sensors[t][idx[t]].stats]_vars

\* both workers have polled: a MiFlora sensor has a failure and a success on
\* record, the MiTempBt sensor one success
C20_Witness ==
    /\ \E i \in Positions(sensor_type_miflora) :
         sensors[sensor_type_miflora][i].stats
           = [count |-> 2, success |-> 1, failure |-> 1]
    /\ \E i \in Positions(sensor_type_mitempbt) :
         sensors[sensor_type_mitempbt][i].stats
           = [count |-> 1, success |-> 1, failure |-> 0]

\* p is an initial segment of s
IsPrefix(p, s) ==
    Len(p) <= Len(s) /\ \A i \in 1..Len(p) : p[i] = s[i]

\* the worker has a pass behind it that ran to the end of its for loop
HasCompletedPass(t) ==
    /\ pc[t] \notin {"crashed", "killed"}
    /\ passes[t] >= (IF InPass(t) THEN 2 ELSE 1)

\* C21: in every pass the acquisitions are started on the sensors in the
\* order of the registry (its insertion order), from the first on; a pass
\* that ran to its end started them on every sensor, so its sequence is that
\* order, and the pass in progress repeats the sequence of the last completed
\* pass as far as it has come, whatever the outcomes of the earlier passes.
C21_SameOrderEveryPass ==
    \A t \in SensorTypes :
       /\ IsPrefix(visited[t], dict_keys(sensors[t]))
       /\ HasCompletedPass(t) =>
            /\ lastVisited[t] = dict_keys(sensors[t])
            /\ IsPrefix(visited[t], lastVisited[t])

\* a worker has come to the second sensor of its second pass; the first
\* sensor failed in one of the two passes and succeeded in the other
C21_Witness ==
    \E t \in SensorTypes :
       /\ passes[t] = 2 /\ Len(visited[t]) = 2
       /\ visited[t] = lastVisited[t]
       /\ sensors[t][1].stats.success = 1
       /\ sensors[t][1].stats.failure = 1

\* C22: in json mode, a sensor that has been acquired successfully at least
\* once carries a firmware value, whether the start-up probe or a later
\* polling cycle was its first successful contact, and the dispatch never
\* finds the key missing.
C22_FirmwareCapturedOnFirstSuccess ==
    /\ \A t \in SensorTypes : \A i \in Positions(t) :
         reporting_mode = "json" /\ sensors[t][i].stats.success >= 1
         => sensors[t][i].firmware
    /\ \A t \in SensorTypes : crashedAt[t] # "firmware"

\* C23: the names of a registry are pairwise different, and a worker is
\* never running on a registry that holds fewer sensors than its section of
\* the configuration lists entries: two entries whose names normalise to the
\* same internal name stop the start-up instead.
C23_CollisionIsConfigurationError ==
    \A t \in SensorTypes :
       /\ \A i, j \in Positions(t) :
            sensors[t][i].name = sensors[t][j].name => i = j
       /\ pc[t] \notin {"idle", "killed"} => Len(sensors[t]) = configured[t]

\* C24: in json mode no method of the broker client is ever called, at
\* start-up, in the discovery step, in a polling pass or at the exit: there
\* is no connection, no announcement, no message handed to the client, and
\* no worker is at a broker call; the readings are printed.
C24_LocalOnlyNeverTouchesBroker ==
    reporting_mode = "json" =>
      /\ brokerCalls = {}
      /\ ~ mqtt_connected
      /\ announced = <<>>
      /\ username = <<>>
      /\ \A t \in SensorTypes :
           /\ published[t] = <<>>
           /\ pc[t] \notin {"tb_reconnect", "tb_publish", "slack"}

\* a one-shot run in json mode that ended normally after a worker printed
\* the reading of a sensor
C24_Witness ==
    /\ reporting_mode = "json"
    /\ mainPc = "exited" /\ exitStatus = "zero"
    /\ \E t \in SensorTypes :
         /\ pc[t] = "done"
         /\ sensors[t][1].stats.success = 1

\* C25: a worker whose thread has ended, by the break of one-shot mode or by
\* an exception raised while reading parameters or dispatching, does not hold
\* hciLock; so when every other worker has ended, a worker waiting at line
\* 296 can take the lock.
C25_TerminatedWorkerHoldsNoLock ==
    \A t \in SensorTypes :
       Terminated(t) =>
         /\ hciLock # t
         /\ pc[Other(t)] = "locking" => ENABLED AcquireLock(Other(t))

\* a worker was ended by an exception inside its pass, and the other worker
\* has taken the lock since and is polling
C25_Witness ==
    \E t \in SensorTypes :
       /\ pc[t] = "crashed"
       /\ crashedAt[t] \in {"read", "publish", "firmware", "reconnect"}
       /\ hciLock = Other(t) /\ pc[Other(t)] = "attempt"
       /\ passes[Other(t)] = 1

\* ------------------------------------------------------------- scheduling
\* a step of the main thread (lines 309-550)
MainStep ==
    \/ CheckConfiguration
    \/ ConnectBroker
    \/ \E t \in SensorTypes : init_sensors_entry(t)
    \/ \E t \in SensorTypes : init_sensors_return(t)
    \/ DiscoveryAnnouncement
    \/ \E t \in SensorTypes : StartWorker(t)
    \/ JoinAndExit

\* a step of the sensorPooler thread of one class (lines 292-307)
WorkerStep(sensor_type) ==
    \/ AcquireLock(sensor_type)
    \/ BeginSensor(sensor_type)
    \/ Attempt(sensor_type)
    \/ Judge(sensor_type)
    \/ ReadParameters(sensor_type)
    \/ Dispatch(sensor_type)
    \/ Reconnect(sensor_type)
    \/ PublishTelemetry(sensor_type)
    \/ SlackSleep(sensor_type)
    \/ EndPass(sensor_type)
    \/ WakeUp(sensor_type)

\* Every thread that can take a step eventually takes one, and every call it
\* makes returns or raises.  The broker's answer to the connection (on_connect)
\* is an event of the environment and is not forced.
FairSpec ==
    /\ Spec
    /\ WF_vars(MainStep)
    /\ \A t \in SensorTypes : WF_vars(WorkerStep(t))

\* both workers were started for a single pass
BothStartedOneShot ==
    /\ ~ daemon_enabled
    /\ \A t \in SensorTypes : pc[t] # "idle"

\* C26: in one-shot mode with both classes configured, under fair scheduling
\* and with calls that all return or raise, both workers eventually reach
\* their terminal state (here: run() has ended, or the process has), and the
\* main thread gets past its join to a normal exit only when every started
\* worker has terminated.
C26_OneShotWorkersTerminate ==
    /\ [](mainPc = "exited" /\ exitStatus = "zero"
            => \A t \in SensorTypes : pc[t] = "idle" \/ Terminated(t))
    /\ BothStartedOneShot
         ~> (\A t \in SensorTypes : pc[t] \in {"done", "crashed", "killed"})

====
